---- MODULE Spec2Model ----
(***************************************************************************)
(* A model of the interactive shell of src/app/main.c and src/src/lab.c:   *)
(* the run loop (main), the tokenizer (split_command), the trimming of a   *)
(* line (strip_whitespace), the built-in dispatcher (execute_builtin,      *)
(* handle_cd), session setup (setup_shell) and the job-control steps of    *)
(* the parent and of the forked child, interleaved.                        *)
(*                                                                         *)
(* main.c calls the functions of lab.c under the names of lab.h:           *)
(*   sh_init = setup_shell, trim_white = strip_whitespace,                 *)
(*   cmd_parse = split_command, do_builtin = execute_builtin,              *)
(*   cmd_free = free_command, sh_destroy = cleanup_shell.                  *)
(*                                                                         *)
(* A line is a sequence of one-character strings.                          *)
(***************************************************************************)
EXTENDS Integers, Sequences, FiniteSets, TLC

\* ------------------------------------------------------------------ bounds

\* Input lines read in one run of the shell.
MaxLines == 2

\* Length of the lines the tokenizer specification enumerates.
MaxLen == 4

\* ------------------------------------------------------- program constants

\* lab.c:20, sysconf(_SC_ARG_MAX) on Linux.
MAX_ARGS == 2097152

\* The process id of the shell (getpid() in setup_shell).
ShellPid == 100

\* The process group the shell was started in (getpgrp() of a process that
\* is no group leader).
LauncherPgid == ShellPid - 1

EXIT_SUCCESS == 0

EXIT_FAILURE == 1

\* The five job-control signals of setup_shell and of the child.
JobSignals == {"SIGINT", "SIGQUIT", "SIGTSTP", "SIGTTIN", "SIGTTOU"}

\* The null pointer as an entry of an argument array: no token is empty.
NULL == <<>>

\* ------------------------------------------------------------- characters

\* isspace() on the characters of the model's alphabet.
isspace(c) == c \in {" ", "\t", "\n"}

\* The delimiter string " " of strtok in split_command.
TokDelims == {" "}

\* ------------------------------------------------------ strip_whitespace

RECURSIVE SkipLeading(_)
\* lab.c:98, while (isspace(*input)) input++
SkipLeading(s) ==
    IF s # <<>> /\ isspace(Head(s)) THEN SkipLeading(Tail(s)) ELSE s

RECURSIVE CutTrailing(_)
\* lab.c:100-102, end walks back while end > input and isspace(*end)
CutTrailing(s) ==
    IF Len(s) > 1 /\ isspace(s[Len(s)])
    THEN CutTrailing(SubSeq(s, 1, Len(s) - 1))
    ELSE s

\* strip_whitespace with a slip: the leading whitespace is not skipped.
strip_whitespace_keeps_leading(input) ==
    IF input = <<>> THEN input ELSE CutTrailing(input)

\* The string strip_whitespace returns.
strip_whitespace(input) ==
    LET t == SkipLeading(input)
    IN  IF t = <<>> THEN t ELSE CutTrailing(t)

\* How far the returned pointer is from the pointer passed in.
strip_offset(input) == Len(input) - Len(SkipLeading(input))

\* ---------------------------------------------------------- split_command

RECURSIVE SkipDelims(_, _)
SkipDelims(s, delims) ==
    IF s # <<>> /\ Head(s) \in delims THEN SkipDelims(Tail(s), delims) ELSE s

RECURSIVE TakeToken(_, _)
TakeToken(s, delims) ==
    IF s = <<>> \/ Head(s) \in delims
    THEN <<>>
    ELSE <<Head(s)>> \o TakeToken(Tail(s), delims)

\* strtok with a slip: it resumes one character too far.
strtok_skips_one_more(s, delims) ==
    LET t   == SkipDelims(s, delims)
        tok == TakeToken(t, delims)
    IN  [token |-> tok, rest |-> SubSeq(t, Len(tok) + 3, Len(t))]

\* One call of strtok on what is left of the copy: the next token (NULL when
\* there is none) and what is left after the delimiter that ended it.
strtok(s, delims) ==
    LET t   == SkipDelims(s, delims)
        tok == TakeToken(t, delims)
    IN  [token |-> tok, rest |-> SubSeq(t, Len(tok) + 2, Len(t))]

\* The outcomes of the allocations of one call of split_command: none fails,
\* malloc of the array fails, strdup of the input fails, or strdup of the
\* idx-th token fails.
AllocOutcome(kind, idx) == [kind |-> kind, idx |-> idx]

NoFailure == AllocOutcome("none", 0)

RECURSIVE split_loop(_, _, _, _)
\* lab.c:67-72: args is the array filled so far, index = Len(args).
split_loop(rest, args, a, delims) ==
    LET r == strtok(rest, delims)
    IN  IF r.token # NULL /\ Len(args) < MAX_ARGS - 1
        THEN split_loop(r.rest,
                        Append(args, IF a.kind = "tok" /\ a.idx = Len(args) + 1
                                     THEN NULL ELSE r.token),
                        a, delims)
        ELSE Append(args, NULL)

\* The array split_command returns: ptr is "null" when malloc failed.
split_command(input, a) ==
    IF a.kind = "args"
    THEN [ptr |-> "null", args |-> <<>>]
    ELSE [ptr |-> "ok", args |-> split_loop(input, <<>>, a, TokDelims)]

RECURSIVE UpToNull(_)
\* The entries of an argument array before its first NULL: what a reader of
\* the array (execvp, free_command, execute_builtin) sees.
UpToNull(args) ==
    IF args = <<>> \/ Head(args) = NULL THEN <<>>
    ELSE <<Head(args)>> \o UpToNull(Tail(args))

\* ---------------------------------------------------------------- input

L_empty   == <<>>
L_spaces  == <<" ", "\t">>
L_exit    == <<"e", "x", "i", "t">>
L_cd      == <<"c", "d">>
L_cd_bad  == <<"c", "d", " ", "/", "n">>
L_history == <<"h", "i", "s", "t", "o", "r", "y">>
L_true    == <<"t", "r", "u", "e">>
L_ls_l    == <<" ", "l", "s", " ", " ", "-", "l", " ">>

\* The lines readline can return.
InputLines ==
    {L_empty, L_spaces, L_exit, L_cd, L_cd_bad, L_history, L_true, L_ls_l}

\* The allocation outcomes of one cmd_parse call.
AllocOutcomes ==
    {NoFailure, AllocOutcome("args", 0), AllocOutcome("copy", 0),
     AllocOutcome("tok", 1), AllocOutcome("tok", 2)}

\* The directories that exist, and the working directory the shell starts in.
D_tmp == <<"/", "t">>
D_bad == <<"/", "n">>
D_start == <<"/">>
ExistingDirs == {D_tmp, D_start}

\* getenv("HOME"): unset (NULL) or a path.
HomeValues == {NULL, D_tmp, D_bad}

\* getpwuid(getuid()): no entry (NULL) or the entry's directory.
PwDirValues == {NULL, D_tmp}

\* ------------------------------------------------------------------ state

VARIABLES
    sh,         \* struct shell: shell_terminal, shell_is_interactive, shell_pgid
    pc,         \* where the shell process is in main
    nlines,     \* lines read so far
    tty,        \* the controlling terminal: fg is its foreground process group
    groups,     \* the process groups that exist
    shellGrp,   \* the process group of the shell process
    shellIgn,   \* the signals the shell process ignores
    sigchldIgn, \* whether the shell inherited SIGCHLD ignored
    cwd,        \* the working directory of the shell process
    hist,       \* readline's history list
    raw,        \* the line as readline returned it
    freed,      \* free(line) of a blank line: how far line is from raw
    out,        \* what the shell process printed since it read the line
    unreleased, \* the command vectors allocated and not released
    exit_status,\* the status the shell process ended with
    line,       \* char *line of main, as a string
    alloc,      \* how the allocations of the last cmd_parse went
    cmd,        \* char **cmd of main
    rval,       \* int rval of main
    status,     \* int status of main
    nforks,     \* children created so far
    child,      \* the forked child of the current command
    log         \* what the shell process did since it read the current line

\* What no step of the run loop or of the child changes.
env == <<sh, shellGrp, shellIgn, sigchldIgn>>

\* What only the run loop's own reads, prints and releases change.
book == <<raw, freed, out, unreleased, exit_status>>

vars ==
    <<sh, pc, nlines, tty, groups, shellGrp, shellIgn, sigchldIgn, cwd, hist,
      line, alloc, cmd, rval, status, nforks, child, log, raw, freed, out,
      unreleased, exit_status>>

NoCmd == [ptr |-> "none", args |-> <<>>]

\* No free(line) in this iteration, and a process that has not ended.
NoFree == 0 - 1

NoExit == 0 - 1

NoStatus == [kind |-> "none", code |-> 0, sig |-> "none"]

NoChild ==
    [pc |-> "none", pid |-> 0, pgid |-> 0, ign |-> {}, stopped |-> FALSE,
     execd |-> FALSE, status |-> NoStatus]

\* The wait statuses: a normal exit with a code, a kill by a signal.
Exited(code) == [kind |-> "exited", code |-> code, sig |-> "none"]

Signaled(sig) == [kind |-> "signaled", code |-> 0, sig |-> sig]

\* What an int that was never assigned can hold.
AnyStatus ==
    {Exited(EXIT_SUCCESS), Exited(EXIT_FAILURE), Signaled("SIGINT"),
     [kind |-> "stopped", code |-> 0, sig |-> "SIGTSTP"],
     [kind |-> "continued", code |-> 0, sig |-> "none"]}

\* What a pid_t that was never assigned can hold.
AnyPgid == {0, ShellPid, ShellPid + 1}

\* ------------------------------------------------------------ the terminal

\* Whether tcsetpgrp, called by a process of group callerGrp that ignores the
\* signals ign, sends the caller SIGTTOU and stops it: the caller is in the
\* background and does not ignore SIGTTOU.
TtouStops(callerGrp, ign) ==
    /\ sh.shell_is_interactive
    /\ callerGrp # tty.fg
    /\ "SIGTTOU" \notin ign

\* The terminal after tcsetpgrp(sh.shell_terminal, target): unchanged when
\* standard input is no terminal (ENOTTY), when the group does not exist
\* (EPERM) or when the caller is stopped by SIGTTOU.
tcsetpgrp(target, callerGrp, ign) ==
    IF /\ sh.shell_is_interactive
       /\ target \in groups
       /\ ~TtouStops(callerGrp, ign)
    THEN [tty EXCEPT !.fg = target]
    ELSE tty

\* ------------------------------------------------------------ setup_shell

\* struct shell after setup_shell: shell_pgid is assigned only when standard
\* input is a terminal; otherwise it keeps what the stack held.
\* pgid_assigned is no field of the struct: it records whether an assignment
\* to shell_pgid has run.
setup_shell(isatty, unassigned) ==
    IF isatty
    THEN [shell_is_interactive |-> TRUE, shell_pgid |-> ShellPid,
          pgid_assigned |-> TRUE]
    ELSE [shell_is_interactive |-> FALSE, shell_pgid |-> unassigned,
          pgid_assigned |-> FALSE]

\* The state after parse_args and sh_init. An interactive shell has left the
\* loop of lab.c:168 (it was in the foreground), ignores the job-control
\* signals, leads its own process group and has made it the foreground
\* group. Otherwise it is in the group it was started in, with the signals
\* as inherited.
Init ==
    /\ \E isatty \in BOOLEAN, unassigned \in AnyPgid :
          /\ sh = setup_shell(isatty, unassigned)
          /\ shellGrp = IF isatty THEN ShellPid ELSE LauncherPgid
          /\ shellIgn = IF isatty THEN JobSignals ELSE {}
          /\ groups = IF isatty THEN {ShellPid} ELSE {LauncherPgid}
          /\ tty = [fg |-> IF isatty THEN sh.shell_pgid ELSE LauncherPgid]
    /\ sigchldIgn \in BOOLEAN
    /\ pc = "read"
    /\ nlines = 0
    /\ cwd = D_start
    /\ hist = <<>>
    /\ line = <<>>
    /\ alloc = NoFailure
    /\ cmd = NoCmd
    /\ rval = 0
    /\ status = NoStatus
    /\ nforks = 0
    /\ child = NoChild
    /\ log = <<>>
    /\ raw = <<>>
    /\ freed = NoFree
    /\ out = <<>>
    /\ unreleased = 0
    /\ exit_status = NoExit

\* ------------------------------------------------------------- built-ins

B_exit == <<"e", "x", "i", "t">>
B_cd == <<"c", "d">>
B_history == <<"h", "i", "s", "t", "o", "r", "y">>

\* One thing printed: what it is, the number in it, the text in it.
Printed(what, n, text) == [what |-> what, n |-> n, text |-> text]

\* readline's history_base.
history_base == 1

\* The listing with a slip: the numbers start at 0, not at history_base.
history_listing_from_zero ==
    [i \in 1..Len(hist) |-> Printed("history", i - 1, hist[i])]

\* lab.c:147-152: one line per entry of the history list, numbered from
\* history_base, in the order of the list; nothing when the list is empty.
history_listing ==
    [i \in 1..Len(hist) |-> Printed("history", (i - 1) + history_base, hist[i])]

\* handle_cd: the value it returns and the working directory it leaves, with
\* home = getenv("HOME") and pwdir = the directory of the user's passwd entry.
handle_cd(args, home, pwdir, dir) ==
    IF args[2] = NULL
    THEN LET home_dir == IF home # NULL THEN home ELSE pwdir
         IN  IF home_dir # NULL /\ home_dir \notin ExistingDirs
             THEN [rc |-> 0 - 1, cwd |-> dir]
             ELSE [rc |-> 0, cwd |-> IF home_dir # NULL THEN home_dir ELSE dir]
    ELSE IF args[2] \notin ExistingDirs
         THEN [rc |-> 0 - 1, cwd |-> dir]
         ELSE [rc |-> 0, cwd |-> args[2]]

\* What execute_builtin does with a non-null array: "exit" ends the process,
\* "true" and "false" are the value it returns; out is what it prints
\* (perror of handle_cd, the listing of history).
execute_builtin(argv, home, pwdir, dir) ==
    IF argv[1] = NULL THEN [ret |-> "false", cwd |-> dir, out |-> <<>>]
    ELSE IF argv[1] = B_exit THEN [ret |-> "exit", cwd |-> dir, out |-> <<>>]
    ELSE IF argv[1] = B_cd
         THEN LET r == handle_cd(argv, home, pwdir, dir)
              IN  [ret |-> IF r.rc = 0 THEN "true" ELSE "false", cwd |-> r.cwd,
                   out |-> IF r.rc = 0 THEN <<>>
                           ELSE <<Printed("perror_cd", 0, <<>>)>>]
    ELSE IF argv[1] = B_history
         THEN [ret |-> "true", cwd |-> dir, out |-> history_listing]
    ELSE [ret |-> "false", cwd |-> dir, out |-> <<>>]

\* ---------------------------------------------------------- the run loop

\* Every read starts an iteration of the loop: the int rval and int status
\* of the iteration before are out of scope.

\* main.c:38 and 93: readline returns NULL at the end of input, the loop
\* ends, sh_destroy runs and main returns.
ReadEOF ==
    /\ pc = "read"
    /\ pc' = "exited"
    /\ log' = <<"sh_destroy">>
    /\ rval' = 0
    /\ status' = NoStatus
    /\ freed' = NoFree
    /\ out' = <<>>
    /\ exit_status' = EXIT_SUCCESS
    /\ UNCHANGED <<raw, unreleased>>
    /\ UNCHANGED <<env, nlines, tty, groups, cwd, hist, line, alloc,
                   cmd, nforks, child>>

\* main.c:38-46: a line that is empty after trim_white. free gets the pointer
\* trim_white returned; when that is not the pointer readline returned, the
\* call is undefined: the allocator aborts the process or it goes on.
ReadBlank ==
    /\ pc = "read"
    /\ nlines < MaxLines
    /\ \E l \in InputLines, aborts \in BOOLEAN :
          /\ strip_whitespace(l) = <<>>
          /\ aborts => strip_offset(l) > 0
          /\ pc' = IF aborts THEN "crashed" ELSE "read"
          /\ raw' = l
          /\ line' = strip_whitespace(l)
          /\ freed' = strip_offset(l)
    /\ alloc' = NoFailure
    /\ nlines' = nlines + 1
    /\ log' = <<"free_line">>
    /\ rval' = 0
    /\ status' = NoStatus
    /\ out' = <<>>
    /\ UNCHANGED <<unreleased, exit_status>>
    /\ UNCHANGED <<env, tty, groups, cwd, hist, cmd, nforks, child>>

\* main.c:38-49: a line that is not empty after trim_white is added to the
\* history and parsed. When strdup of the line fails in split_command, strtok
\* is called with a null string and no string saved: undefined, the process
\* is killed or strtok finds no token.
ReadCommand ==
    /\ pc = "read"
    /\ nlines < MaxLines
    /\ \E l \in InputLines, a \in AllocOutcomes, killed \in BOOLEAN :
          /\ strip_whitespace(l) # <<>>
          /\ killed => a.kind = "copy"
          /\ raw' = l
          /\ line' = strip_whitespace(l)
          /\ alloc' = a
          /\ hist' = Append(hist, line')
          /\ cmd' = IF a.kind = "copy"
                    THEN IF killed THEN NoCmd
                         ELSE [ptr |-> "ok", args |-> <<NULL>>]
                    ELSE split_command(line', a)
          /\ pc' = IF killed THEN "crashed" ELSE "dispatch"
          /\ unreleased' = IF a.kind = "args" THEN unreleased
                           ELSE unreleased + 1
    /\ nlines' = nlines + 1
    /\ log' = <<"cmd_parse">>
    /\ rval' = 0
    /\ status' = NoStatus
    /\ freed' = NoFree
    /\ out' = <<>>
    /\ UNCHANGED exit_status
    /\ UNCHANGED <<env, tty, groups, cwd, nforks, child>>

\* main.c:50: do_builtin(&sh, cmd). execute_builtin reads argv[0] of a null
\* array when malloc failed: the process is killed.
DoBuiltin ==
    /\ pc = "dispatch"
    /\ log' = Append(log, "do_builtin")
    /\ IF cmd.ptr = "null"
       THEN /\ pc' = "crashed"
            /\ cwd' = cwd
            /\ UNCHANGED <<out, exit_status>>
       ELSE \E home \in HomeValues, pwdir \in PwDirValues :
               LET r == execute_builtin(cmd.args, home, pwdir, cwd)
               IN  /\ cwd' = r.cwd
                   /\ out' = out \o r.out
                   /\ exit_status' = IF r.ret = "exit" THEN EXIT_SUCCESS
                                      ELSE exit_status
                   /\ pc' = CASE r.ret = "exit" -> "exited"
                              [] r.ret = "true" -> "read"
                              [] OTHER -> "fork"
    /\ UNCHANGED <<env, raw, freed, unreleased, nlines, tty, groups, hist, line, alloc, cmd,
                   rval, status, nforks>>
    /\ UNCHANGED child

\* main.c:52: fork succeeds. The child starts at main.c:56 with a copy of the
\* shell's memory, in the shell's process group, with the shell's signal
\* dispositions.
ForkOk ==
    /\ pc = "fork"
    /\ nforks' = nforks + 1
    /\ child' = [pc |-> "c_setpgid", pid |-> ShellPid + nforks + 1,
                 pgid |-> shellGrp, ign |-> shellIgn, stopped |-> FALSE,
                 execd |-> FALSE, status |-> NoStatus]
    /\ pc' = "p_setpgid"
    /\ log' = Append(log, "fork")
    /\ UNCHANGED <<env, book, nlines, tty, groups, cwd, hist, line, alloc,
                   cmd, rval, status>>

\* A failed fork with a slip: no abort, the value fork returned is used as
\* the id of a child (what run_command of lab.c:218-220 does: perror, go on).
ForkFailGoesOn ==
    /\ pc = "fork"
    /\ pc' = "p_setpgid"
    /\ child' = [NoChild EXCEPT !.pid = 0 - 1, !.pc = "gone"]
    /\ log' = Append(log, "fork_failed")
    /\ UNCHANGED <<env, book, nlines, tty, groups, cwd, hist, line, alloc,
                   cmd, rval, status, nforks>>

\* main.c:67-72: fork returns a negative value: perror, abort.
ForkFail ==
    /\ pc = "fork"
    /\ pc' = "aborted"
    /\ log' = Append(log, "fork_failed")
    /\ UNCHANGED <<env, book, nlines, tty, groups, cwd, hist, line, alloc,
                   cmd, rval, status, nforks, child>>

\* ------------------------------------------------------------- the child

ChildAlive ==
    child.pc \in {"c_setpgid", "c_tcsetpgrp", "c_signal", "c_exec", "running"}

\* The child ends with wait status st. With SIGCHLD ignored in the shell it
\* leaves no zombie: it is reaped at once and its process group is gone.
Terminated(st) ==
    [child EXCEPT !.pc = IF sigchldIgn THEN "gone" ELSE "zombie",
                  !.status = st, !.stopped = FALSE]

GroupsAfterEnd ==
    IF sigchldIgn /\ child.pgid = child.pid THEN groups \ {child.pid} ELSE groups

\* main.c:56-57: setpgid(child, child) in the child.
ChildSetpgid ==
    /\ child.pc = "c_setpgid"
    /\ ~child.stopped
    /\ child' = [child EXCEPT !.pc = "c_tcsetpgrp", !.pgid = child.pid]
    /\ groups' = groups \cup {child.pid}
    /\ UNCHANGED <<env, book, pc, nlines, tty, cwd, hist, line, alloc, cmd,
                   rval, status, nforks, log>>

\* main.c:58: tcsetpgrp(sh.shell_terminal, child) in the child.
ChildTcsetpgrp ==
    /\ child.pc = "c_tcsetpgrp"
    /\ ~child.stopped
    /\ tty' = tcsetpgrp(child.pid, child.pgid, child.ign)
    /\ child' = IF TtouStops(child.pgid, child.ign)
                THEN [child EXCEPT !.stopped = TRUE]
                ELSE [child EXCEPT !.pc = "c_signal"]
    /\ UNCHANGED <<env, book, pc, nlines, groups, cwd, hist, line, alloc, cmd,
                   rval, status, nforks, log>>

\* The child with a slip: SIGTSTP is not restored.
ChildSignalKeepsTstp ==
    /\ child.pc = "c_signal"
    /\ ~child.stopped
    /\ child' = [child EXCEPT !.pc = "c_exec",
                              !.ign = child.ign \ (JobSignals \ {"SIGTSTP"})]
    /\ UNCHANGED <<env, book, pc, nlines, tty, groups, cwd, hist, line, alloc,
                   cmd, rval, status, nforks, log>>

\* main.c:59-63: the five calls signal(SIG..., SIG_DFL) in the child.
ChildSignal ==
    /\ child.pc = "c_signal"
    /\ ~child.stopped
    /\ child' = [child EXCEPT !.pc = "c_exec", !.ign = child.ign \ JobSignals]
    /\ UNCHANGED <<env, book, pc, nlines, tty, groups, cwd, hist, line, alloc,
                   cmd, rval, status, nforks, log>>

\* main.c:64-65: execvp(cmd[0], cmd), and exit(EXIT_FAILURE) when it returns.
\* With cmd[0] null, execvp reads through a null pointer or fails: the child
\* is killed or exits with EXIT_FAILURE.
ChildExec ==
    /\ child.pc = "c_exec"
    /\ ~child.stopped
    /\ \E found \in BOOLEAN, killed \in BOOLEAN :
          /\ killed => cmd.args[1] = NULL
          /\ found => cmd.args[1] # NULL
          /\ child' = IF killed THEN Terminated(Signaled("SIGSEGV"))
                      ELSE IF found
                           THEN [child EXCEPT !.pc = "running", !.execd = TRUE]
                           ELSE Terminated(Exited(EXIT_FAILURE))
          /\ groups' = IF found THEN groups ELSE GroupsAfterEnd
    /\ UNCHANGED <<env, book, pc, nlines, tty, cwd, hist, line, alloc, cmd,
                   rval, status, nforks, log>>

\* The program the child runs ends by itself.
ChildExit ==
    /\ child.pc = "running"
    /\ ~child.stopped
    /\ \E code \in {EXIT_SUCCESS, EXIT_FAILURE} : child' = Terminated(Exited(code))
    /\ groups' = GroupsAfterEnd
    /\ UNCHANGED <<env, book, pc, nlines, tty, cwd, hist, line, alloc, cmd,
                   rval, status, nforks, log>>

\* A signal kills the child: one it does not ignore, or SIGKILL.
ChildKilled ==
    /\ child.pc \in {"c_exec", "running"}
    /\ \E sig \in {"SIGINT", "SIGQUIT", "SIGKILL"} :
          /\ sig \notin child.ign
          /\ child' = Terminated(Signaled(sig))
    /\ groups' = GroupsAfterEnd
    /\ UNCHANGED <<env, book, pc, nlines, tty, cwd, hist, line, alloc, cmd,
                   rval, status, nforks, log>>

\* SIGTSTP stops the child when the child has restored its default action.
ChildStop ==
    /\ child.pc \in {"c_exec", "running"}
    /\ ~child.stopped
    /\ "SIGTSTP" \notin child.ign
    /\ child' = [child EXCEPT !.stopped = TRUE]
    /\ UNCHANGED <<env, book, pc, nlines, tty, groups, cwd, hist, line, alloc,
                   cmd, rval, status, nforks, log>>

\* SIGCONT, sent from outside the shell, resumes the stopped child.
ChildCont ==
    /\ ChildAlive
    /\ child.stopped
    /\ child' = [child EXCEPT !.stopped = FALSE]
    /\ UNCHANGED <<env, book, pc, nlines, tty, groups, cwd, hist, line, alloc,
                   cmd, rval, status, nforks, log>>

\* ------------------------------------------------------------ the parent

\* The parent with a slip: no setpgid of its own, the child's is relied on.
ParentSetpgidSkipped ==
    /\ pc = "p_setpgid"
    /\ pc' = "p_tcsetpgrp"
    /\ log' = log
    /\ UNCHANGED <<env, book, nlines, tty, cwd, hist, line, alloc, cmd, rval,
                   status, nforks, child, groups>>

\* main.c:79: setpgid(pid, pid) in the parent. It fails when the child is
\* gone (ESRCH) or has replaced its image (EACCES).
ParentSetpgid ==
    /\ pc = "p_setpgid"
    /\ pc' = "p_tcsetpgrp"
    /\ log' = Append(log, "setpgid")
    /\ IF child.pc \in {"none", "gone"} \/ child.execd
       THEN UNCHANGED <<child, groups>>
       ELSE /\ child' = [child EXCEPT !.pgid = child.pid]
            /\ groups' = groups \cup {child.pid}
    /\ UNCHANGED <<env, book, nlines, tty, cwd, hist, line, alloc, cmd, rval,
                   status, nforks>>

\* The parent with a slip: the terminal is not handed to the child (as in
\* run_command of lab.c:215-217, which only waits).
ParentTcsetpgrpOmitted ==
    /\ pc = "p_tcsetpgrp"
    /\ pc' = "p_waitpid"
    /\ UNCHANGED <<env, book, nlines, tty, groups, cwd, hist, line, alloc,
                   cmd, rval, status, nforks, child, log>>

\* main.c:80: tcsetpgrp(sh.shell_terminal, pid) in the parent.
ParentTcsetpgrp ==
    /\ pc = "p_tcsetpgrp"
    /\ tty' = tcsetpgrp(child.pid, shellGrp, shellIgn)
    /\ pc' = IF TtouStops(shellGrp, shellIgn) THEN "stopped" ELSE "p_waitpid"
    /\ log' = Append(log, "tcsetpgrp_child")
    /\ UNCHANGED <<env, book, nlines, groups, cwd, hist, line, alloc, cmd,
                   rval, status, nforks, child>>

\* main.c:82: the parent calls waitpid(pid, &status, 0) and blocks.
ParentWaitpid ==
    /\ pc = "p_waitpid"
    /\ pc' = "p_blocked"
    /\ log' = Append(log, "waitpid")
    /\ UNCHANGED <<env, book, nlines, tty, groups, cwd, hist, line, alloc,
                   cmd, rval, status, nforks, child>>

\* The return of waitpid with a slip: the report runs whatever rval is.
WaitpidReturnsAlwaysExplains ==
    /\ pc = "p_blocked"
    /\ child.pc \in {"zombie", "gone"}
    /\ IF child.pc = "zombie"
       THEN /\ rval' = child.pid
            /\ status' = child.status
            /\ child' = [child EXCEPT !.pc = "reaped"]
            /\ groups' = IF child.pgid = child.pid
                         THEN groups \ {child.pid} ELSE groups
       ELSE /\ rval' = 0 - 1
            /\ status' \in AnyStatus
            /\ UNCHANGED <<child, groups>>
    /\ pc' = "p_explain"
    /\ log' = Append(log, "waitpid_returned")
    /\ UNCHANGED <<env, book, nlines, tty, cwd, hist, line, alloc, cmd, nforks>>

\* main.c:82-83: waitpid returns. It returns the child's id and its status
\* and reaps the zombie; or, the child having left no zombie, it returns -1
\* (ECHILD) and leaves status as it was: never assigned. The options are 0:
\* a stopped child does not make it return. The shell installs no signal
\* handler (setup_shell only ignores signals), so no signal interrupts the
\* call while the child lives.
WaitpidReturns ==
    /\ pc = "p_blocked"
    /\ child.pc \in {"zombie", "gone"}
    /\ IF child.pc = "zombie"
       THEN /\ rval' = child.pid
            /\ status' = child.status
            /\ child' = [child EXCEPT !.pc = "reaped"]
            /\ groups' = IF child.pgid = child.pid
                         THEN groups \ {child.pid} ELSE groups
            /\ pc' = "p_cmd_free"
       ELSE /\ rval' = 0 - 1
            /\ status' \in AnyStatus
            /\ UNCHANGED <<child, groups>>
            /\ pc' = "p_explain"
    /\ log' = Append(log, "waitpid_returned")
    /\ UNCHANGED <<env, book, nlines, tty, cwd, hist, line, alloc, cmd, nforks>>

\* The W* macros on a wait status.
WIFEXITED(st) == st.kind = "exited"

WIFSIGNALED(st) == st.kind = "signaled"

WIFSTOPPED(st) == st.kind = "stopped"

WIFCONTINUED(st) == st.kind = "continued"

\* main.c:13-31: the lines explain_waitpid prints for a status. The first
\* test is !WIFEXITED(status).
explain_waitpid(st) ==
    (IF ~WIFEXITED(st) THEN <<Printed("exit_status", st.code, <<>>)>> ELSE <<>>)
    \o (IF WIFSIGNALED(st) THEN <<Printed("term_signal", 0, <<st.sig>>)>> ELSE <<>>)
    \o (IF WIFSTOPPED(st) THEN <<Printed("stop_signal", 0, <<st.sig>>)>> ELSE <<>>)
    \o (IF WIFCONTINUED(st) THEN <<Printed("continued", 0, <<>>)>> ELSE <<>>)

\* main.c:83-87: the report of a failed wait.
ExplainWaitpid ==
    /\ pc = "p_explain"
    /\ pc' = "p_cmd_free"
    /\ log' = Append(log, "explain_waitpid")
    /\ out' = out \o <<Printed("wait_failed", 0, <<>>)>> \o explain_waitpid(status)
    /\ UNCHANGED <<env, raw, freed, unreleased, exit_status, nlines, tty, groups, cwd, hist, line, alloc,
                   cmd, rval, status, nforks, child>>

\* main.c:88: cmd_free(cmd).
CmdFree ==
    /\ pc = "p_cmd_free"
    /\ pc' = "p_reclaim"
    /\ cmd' = NoCmd
    /\ unreleased' = IF cmd.ptr = "ok" THEN unreleased - 1 ELSE unreleased
    /\ log' = Append(log, "cmd_free")
    /\ UNCHANGED <<env, raw, freed, out, exit_status, nlines, tty, groups, cwd, hist, line, alloc,
                   rval, status, nforks, child>>

\* The reclaim with a slip: it is skipped when wait failed.
ReclaimOnlyAfterCleanWait ==
    /\ pc = "p_reclaim"
    /\ tty' = IF rval = 0 - 1 THEN tty
              ELSE tcsetpgrp(sh.shell_pgid, shellGrp, shellIgn)
    /\ pc' = IF TtouStops(shellGrp, shellIgn) THEN "stopped" ELSE "read"
    /\ log' = IF rval = 0 - 1 THEN log ELSE Append(log, "tcsetpgrp_shell")
    /\ child' = NoChild
    /\ UNCHANGED <<env, book, nlines, groups, cwd, hist, line, alloc, cmd,
                   rval, status, nforks>>

\* main.c:90: tcsetpgrp(sh.shell_terminal, sh.shell_pgid), then the loop
\* reads the next line.
Reclaim ==
    /\ pc = "p_reclaim"
    /\ tty' = tcsetpgrp(sh.shell_pgid, shellGrp, shellIgn)
    /\ pc' = IF TtouStops(shellGrp, shellIgn) THEN "stopped" ELSE "read"
    /\ log' = Append(log, "tcsetpgrp_shell")
    /\ child' = NoChild
    /\ UNCHANGED <<env, book, nlines, groups, cwd, hist, line, alloc, cmd,
                   rval, status, nforks>>

\* ------------------------------------------------------- the specification

Next ==
    \/ ReadEOF
    \/ ReadBlank
    \/ ReadCommand
    \/ DoBuiltin
    \/ ForkOk
    \/ ForkFail
    \/ ChildSetpgid
    \/ ChildTcsetpgrp
    \/ ChildSignal
    \/ ChildExec
    \/ ChildExit
    \/ ChildKilled
    \/ ChildStop
    \/ ChildCont
    \/ ParentSetpgid
    \/ ParentTcsetpgrp
    \/ ParentWaitpid
    \/ WaitpidReturns
    \/ ExplainWaitpid
    \/ CmdFree
    \/ Reclaim

Spec == Init /\ [][Next]_vars

\* ------------------------------------------- the tokenizer on every line

\* The characters of the lines the tokenizer specification enumerates.
Alphabet == {"a", "b", " ", "\t"}

\* Every line of at most MaxLen characters.
Strings == UNION {[1..k -> Alphabet] : k \in 0..MaxLen}

\* The run loop about to trim a line that readline returned.
InitTok ==
    /\ sh = setup_shell(TRUE, 0)
    /\ shellGrp = ShellPid
    /\ shellIgn = JobSignals
    /\ groups = {ShellPid}
    /\ tty = [fg |-> ShellPid]
    /\ sigchldIgn = FALSE
    /\ pc = "tok_raw"
    /\ nlines = 0
    /\ cwd = D_start
    /\ hist = <<>>
    /\ line \in Strings
    /\ alloc = NoFailure
    /\ cmd = NoCmd
    /\ rval = 0
    /\ status = NoStatus
    /\ nforks = 0
    /\ child = NoChild
    /\ log = <<>>
    /\ raw = line
    /\ freed = NoFree
    /\ out = <<>>
    /\ unreleased = 0
    /\ exit_status = NoExit

\* main.c:41-42: line = trim_white(line), and the test for a blank line.
TokTrim ==
    /\ pc = "tok_raw"
    /\ line' = strip_whitespace(line)
    /\ pc' = IF line' = <<>> THEN "tok_blank" ELSE "tok_trimmed"
    /\ UNCHANGED <<env, book, nlines, tty, groups, cwd, hist, alloc, cmd,
                   rval, status, nforks, child, log>>

\* main.c:49: cmd = cmd_parse(line), with the array allocated or not and
\* each token copied or not.
TokParse ==
    /\ pc = "tok_trimmed"
    /\ \E a \in AllocOutcomes \ {AllocOutcome("copy", 0)} :
          /\ alloc' = a
          /\ cmd' = split_command(line, a)
    /\ pc' = "tok_parsed"
    /\ UNCHANGED <<env, book, nlines, tty, groups, cwd, hist, line, rval,
                   status, nforks, child, log>>

NextTok ==
    \/ TokTrim
    \/ TokParse

SpecTok == InitTok /\ [][NextTok]_vars

\* ------------------------------------------------------------ the claims

Range(f) == {f[i] : i \in DOMAIN f}

\* The position of the first entry e of the log, 0 when there is none.
IndexOf(e) ==
    IF e \in Range(log)
    THEN CHOOSE i \in DOMAIN log : log[i] = e /\ \A j \in 1..(i - 1) : log[j] # e
    ELSE 0

\* What the log holds after its entry e (the whole log when e is not in it).
After(e) == SubSeq(log, IndexOf(e) + 1, Len(log))

IsPrefix(p, q) == Len(p) <= Len(q) /\ SubSeq(q, 1, Len(p)) = p

\* The first token of the current line.
FirstToken == strtok(line, TokDelims).token

\* C1: in an interactive session, whenever the run loop is about to read the
\* next line, the foreground process group of the terminal is the session's
\* shell_pgid, after blank lines, built-ins and external commands of every
\* outcome, under every interleaving of the child with the parent.
C1_ForegroundBetweenCommands ==
    (sh.shell_is_interactive /\ pc = "read") => tty.fg = sh.shell_pgid

\* The second external command of an interactive session was killed by a
\* signal and the shell is back at the prompt.
C1_Witness ==
    /\ sh.shell_is_interactive
    /\ pc = "read"
    /\ nforks = MaxLines
    /\ status.kind = "signaled"
    /\ log # <<>>
    /\ log[Len(log)] = "tcsetpgrp_shell"

\* C2: after a successful fork the parent grants the terminal to the child's
\* group, then calls wait, then reclaims the terminal for the shell's group;
\* and once wait has returned, on any outcome, the reclaim has run before the
\* parent is anywhere else than on its way to it.
C2_GrantWaitReclaim ==
    /\ "waitpid" \in Range(log) =>
          /\ "tcsetpgrp_child" \in Range(log)
          /\ IndexOf("tcsetpgrp_child") < IndexOf("waitpid")
    /\ "tcsetpgrp_shell" \in Range(log) =>
          /\ "waitpid_returned" \in Range(log)
          /\ IndexOf("waitpid") < IndexOf("waitpid_returned")
          /\ IndexOf("waitpid_returned") < IndexOf("tcsetpgrp_shell")
    /\ ("waitpid_returned" \in Range(log)
          /\ pc \notin {"p_explain", "p_cmd_free", "p_reclaim"}) =>
          /\ pc = "read"
          /\ log[Len(log)] = "tcsetpgrp_shell"

\* A child that exited with status 0 was waited for and the terminal was
\* reclaimed.
C2_Witness ==
    /\ pc = "read"
    /\ rval > 0
    /\ status = Exited(EXIT_SUCCESS)
    /\ log = <<"cmd_parse", "do_builtin", "fork", "setpgid", "tcsetpgrp_child",
               "waitpid", "waitpid_returned", "cmd_free", "tcsetpgrp_shell">>

\* C3, as claimed: the reclaim is the very next thing the parent does after
\* wait returns (here for a line whose allocations all succeeded).
C3_ReclaimRightAfterWait ==
    alloc = NoFailure =>
        \A i \in 1..(Len(log) - 1) :
            log[i] = "waitpid_returned" => log[i + 1] = "tcsetpgrp_shell"

\* C3, amended: between the return of wait and the reclaim the parent does
\* the report of a failed wait, only when wait failed, and the release of the
\* command vector, and nothing else.
C3_OnlyReportAndFreeBeforeReclaim ==
    "waitpid_returned" \in Range(log) =>
        IsPrefix(After("waitpid_returned"),
                 IF rval = 0 - 1
                 THEN <<"explain_waitpid", "cmd_free", "tcsetpgrp_shell">>
                 ELSE <<"cmd_free", "tcsetpgrp_shell">>)

\* A wait that failed was reported, the vector released and the terminal
\* reclaimed.
C3_Witness ==
    /\ pc = "read"
    /\ rval = 0 - 1
    /\ After("waitpid_returned") = <<"explain_waitpid", "cmd_free", "tcsetpgrp_shell">>

\* C4: a line whose first token is exit, cd or history never leads to a fork,
\* a failing cd included.
C4_BuiltinNeverForks ==
    (alloc = NoFailure /\ FirstToken \in {B_exit, B_cd, B_history}) =>
        /\ pc # "fork"
        /\ "fork" \notin Range(log)
        /\ "fork_failed" \notin Range(log)

\* C5: when fork fails the shell aborts: no setpgid, no tcsetpgrp, no wait
\* with the value fork returned, and no further line is read.
C5_ForkFailureAborts ==
    "fork_failed" \in Range(log) =>
        /\ pc = "aborted"
        /\ log[Len(log)] = "fork_failed"
        /\ Range(log) \cap {"setpgid", "tcsetpgrp_child", "waitpid",
                            "waitpid_returned", "tcsetpgrp_shell"} = {}
        /\ child = NoChild

\* The fork of the second command failed, after a first command that ran.
C5_Witness ==
    /\ pc = "aborted"
    /\ nforks = 1
    /\ nlines = MaxLines

\* C6, as claimed: when the child is about to call execvp, its process group
\* is its own pid, the five job-control signals have their default action in
\* it, and the shell ignores them (here for a line whose allocations all
\* succeeded).
C6_ChildAtExec ==
    (child.pc = "c_exec" /\ alloc = NoFailure) =>
        /\ child.pgid = child.pid
        /\ child.pgid # shellGrp
        /\ child.ign \cap JobSignals = {}
        /\ JobSignals \subseteq shellIgn

\* C6, amended: the shell ignores them when the session is interactive.
C6_ChildAtExecInteractive ==
    child.pc = "c_exec" =>
        /\ child.pgid = child.pid
        /\ child.pgid # shellGrp
        /\ child.ign \cap JobSignals = {}
        /\ sh.shell_is_interactive => JobSignals \subseteq shellIgn

\* The child of an interactive shell is about to call execvp before the
\* parent has run at all.
C6_Witness ==
    /\ child.pc = "c_exec"
    /\ sh.shell_is_interactive
    /\ pc = "p_setpgid"
    /\ JobSignals \subseteq shellIgn

\* C7: whenever the parent or the child is about to hand the terminal to the
\* child's process group, a setpgid call of one of them has created that
\* group.
C7_GroupCreatedBeforeGrant ==
    (pc = "p_tcsetpgrp" \/ child.pc = "c_tcsetpgrp") =>
        /\ child.pgid = child.pid
        /\ child.pgid # shellGrp

\* The parent is about to grant the terminal while the child has not run:
\* the group is there by the parent's setpgid.
C7_Witness ==
    /\ pc = "p_tcsetpgrp"
    /\ child.pc = "c_setpgid"
    /\ child.pid \in groups

\* Whether an allocation of the last cmd_parse failed: the array, or the copy
\* of a token the line has.
AllocationFailed ==
    \/ alloc.kind = "args"
    \/ alloc.kind = "copy"
    \/ alloc.kind = "tok" /\ cmd.args # split_command(line, NoFailure).args

\* C8: when an allocation of the tokenizer fails, the run loop does not
\* dispatch the vector it got and forks nothing for it.
C8_AllocationFailureNotDispatched ==
    (AllocationFailed /\ pc # "read") =>
        /\ "do_builtin" \notin Range(log)
        /\ "fork" \notin Range(log)

RECURSIVE SkipSpace(_)
SkipSpace(s) == IF s # <<>> /\ isspace(Head(s)) THEN SkipSpace(Tail(s)) ELSE s

RECURSIVE TakeWord(_)
TakeWord(s) ==
    IF s = <<>> \/ isspace(Head(s)) THEN <<>> ELSE <<Head(s)>> \o TakeWord(Tail(s))

RECURSIVE WhitespaceRuns(_)
\* The maximal runs of characters that are not whitespace, in order.
WhitespaceRuns(s) ==
    LET t == SkipSpace(s)
        w == TakeWord(t)
    IN  IF t = <<>> THEN <<>>
        ELSE <<w>> \o WhitespaceRuns(SubSeq(t, Len(w) + 1, Len(t)))

\* C9: the tokenizer returns the maximal runs of non-whitespace characters of
\* a trimmed line, spaces and tabs alike, followed by the terminator.
C9_TokensAreWhitespaceRuns ==
    (pc = "tok_parsed" /\ alloc = NoFailure) =>
        /\ cmd.ptr = "ok"
        /\ cmd.args = Append(WhitespaceRuns(line), NULL)

RECURSIVE Join(_)
\* The tokens joined with single spaces.
Join(toks) ==
    IF toks = <<>> THEN <<>>
    ELSE IF Len(toks) = 1 THEN toks[1]
    ELSE toks[1] \o <<" ">> \o Join(Tail(toks))

\* No whitespace at either end and no two whitespace characters in a row.
Normalized(s) ==
    /\ s # <<>>
    /\ ~isspace(s[1])
    /\ ~isspace(s[Len(s)])
    /\ \A i \in 1..(Len(s) - 1) : ~(isspace(s[i]) /\ isspace(s[i + 1]))

\* C10: for a normalized line, the tokens joined with single spaces are the
\* line, and tokenizing that again gives the same vector.
C10_RejoinRoundTrip ==
    (pc = "tok_parsed" /\ alloc = NoFailure /\ Normalized(line)) =>
        /\ cmd.ptr = "ok"
        /\ cmd.args[Len(cmd.args)] = NULL
        /\ Join(UpToNull(cmd.args)) = line
        /\ split_command(Join(UpToNull(cmd.args)), NoFailure) = cmd

\* A normalized line of two tokens was tokenized.
C10_Witness ==
    /\ pc = "tok_parsed"
    /\ alloc = NoFailure
    /\ line = <<"a", " ", "b">>
    /\ UpToNull(cmd.args) = <<<<"a">>, <<"b">>>>

\* The history built-in has just run: the dispatcher took the history
\* branch for the current line and the loop is back at readline.
HistoryRan ==
    /\ pc = "read"
    /\ log = <<"cmd_parse", "do_builtin">>
    /\ cmd.ptr = "ok"
    /\ cmd.args[1] = B_history

\* The numbered listing of the lines ls.
Listing(ls) == [i \in 1..Len(ls) |-> Printed("history", (i - 1) + history_base, ls[i])]

\* C11, as claimed: history, entered after n lines were accepted, prints
\* exactly those n lines.
C11_HistoryPrintsEarlierLines ==
    HistoryRan => out = Listing(SubSeq(hist, 1, Len(hist) - 1))

\* C11, amended: history prints the n lines accepted before it and then its
\* own line, n + 1 entries in input order, duplicates kept, numbered
\* consecutively from history_base; the list is never empty when it runs.
C11_HistoryPrintsAllLinesAndItself ==
    HistoryRan =>
        /\ Len(hist) >= 1
        /\ hist[Len(hist)] = line
        /\ out = Listing(hist)
        /\ \A i \in 1..(Len(out) - 1) : out[i + 1].n = out[i].n + 1
        /\ out # <<>> /\ out[1].n = history_base

\* history ran as the last of MaxLines lines and printed the same line twice
\* among MaxLines entries.
C11_Witness ==
    /\ HistoryRan
    /\ Len(out) = MaxLines
    /\ \E i, j \in 1..Len(out) : i < j /\ out[i].text = out[j].text

\* The process groups of the children forked so far.
ChildPids == (ShellPid + 1)..(ShellPid + nforks)

\* C12: exit ends the shell with status 0 and forks nothing; when exit is
\* dispatched no child's process group holds the terminal, and in an
\* interactive session the shell's own group holds it.
C12_ExitEndsShellHoldingTerminal ==
    /\ (pc = "dispatch" /\ cmd.ptr = "ok" /\ cmd.args[1] = B_exit) =>
          /\ tty.fg \notin ChildPids
          /\ sh.shell_is_interactive => tty.fg = shellGrp /\ tty.fg = sh.shell_pgid
    /\ (pc = "exited" /\ log # <<>> /\ log[Len(log)] = "do_builtin") =>
          /\ exit_status = EXIT_SUCCESS
          /\ log = <<"cmd_parse", "do_builtin">>
          /\ child = NoChild
          /\ tty.fg \notin ChildPids
          /\ sh.shell_is_interactive => tty.fg = shellGrp /\ tty.fg = sh.shell_pgid

\* exit ended an interactive shell after an external command had run.
C12_Witness ==
    /\ pc = "exited"
    /\ log = <<"cmd_parse", "do_builtin">>
    /\ sh.shell_is_interactive
    /\ nforks >= 1
    /\ exit_status = EXIT_SUCCESS

\* handle_cd has reported a failed chdir for the current line.
CdFailed == \E i \in DOMAIN out : out[i].what = "perror_cd"

\* C13: a cd whose chdir fails is reported and does not end the shell.
C13_FailedCdDoesNotEndShell ==
    (alloc = NoFailure /\ CdFailed) => pc \notin {"aborted", "crashed", "exited"}

\* Whether explain_waitpid printed the part what.
Reported(what) == \E i \in DOMAIN out : out[i].what = what

\* C14: the report of a failed wait has each part exactly when it applies to
\* the status: the exit code for a normal exit, the terminating signal for a
\* kill, the stop signal for a stop, the notice for a continuation; and a
\* wait that succeeded reports nothing.
C14_ReportDecodesWhatApplies ==
    /\ (alloc = NoFailure /\ "explain_waitpid" \in Range(log)) =>
          /\ Reported("exit_status") <=> WIFEXITED(status)
          /\ Reported("term_signal") <=> WIFSIGNALED(status)
          /\ Reported("stop_signal") <=> WIFSTOPPED(status)
          /\ Reported("continued") <=> WIFCONTINUED(status)
    /\ ("waitpid_returned" \in Range(log) /\ rval # 0 - 1) => out = <<>>

\* A line that is empty or all whitespace.
IsBlank(l) == \A i \in DOMAIN l : isspace(l[i])

\* C15: a step that reads a blank line only releases it: nothing is added to
\* the history, nothing is tokenized, dispatched or forked. A step that reads
\* any other line adds it to the history, once, before it is dispatched; and
\* no other step changes the history.
C15_BlankLinesRejected ==
    [][/\ (pc = "read" /\ nlines' = nlines + 1 /\ IsBlank(raw')) =>
            /\ hist' = hist
            /\ cmd' = cmd
            /\ unreleased' = unreleased
            /\ <<nforks', child'>> = <<nforks, child>>
            /\ log' = <<"free_line">>
            /\ pc' \in {"read", "crashed"}
       /\ (pc = "read" /\ nlines' = nlines + 1 /\ ~IsBlank(raw')) =>
            /\ line' # <<>>
            /\ hist' = Append(hist, line')
            /\ log' = <<"cmd_parse">>
            /\ pc' \in {"dispatch", "crashed"}
       /\ ~(pc = "read" /\ nlines' = nlines + 1) => hist' = hist
      ]_vars

\* A line of whitespace was read after a command and left the history as it
\* was.
C15_Witness ==
    /\ pc = "read"
    /\ raw = L_spaces
    /\ log = <<"free_line">>
    /\ Len(hist) = 1
    /\ nlines = 2

\* C16: whenever the loop is about to read a line, every command vector the
\* tokenizer produced has been released.
C16_VectorsReleasedBeforeNextRead ==
    (alloc = NoFailure /\ pc \in {"read", "exited"}) => unreleased = 0

\* C17: a child that is stopped makes the shell's wait return.
C17_StopWakesWait ==
    (pc = "p_blocked" /\ ChildAlive /\ child.stopped) => ENABLED WaitpidReturns

\* C18: the shell process group id passed to the reclaiming tcsetpgrp has
\* been assigned by setup_shell.
C18_ReclaimPassesAssignedPgid ==
    (pc = "p_reclaim" \/ "tcsetpgrp_shell" \in Range(log)) => sh.pgid_assigned

\* C19: for a blank line the loop passes to free the address readline
\* returned, and goes on to the next prompt.
C19_BlankLineFreesReadlineBuffer ==
    log = <<"free_line">> =>
        /\ freed = 0
        /\ pc = "read"

====
